---- MODULE Spec2Model ----
(***************************************************************************)
(* ggrep (src/src/main.rs): a recursive, extension-filtered line search.   *)
(* The model follows main(): compile the pattern, walk the tree, scan each *)
(* candidate file in the active output mode, map any_match to the exit     *)
(* status.  Text is a sequence of one-character strings; the pattern       *)
(* language is the part of the regex syntax that the modelled keywords can *)
(* produce (literals, escaped literals, \b, an unclosed group).            *)
(***************************************************************************)
EXTENDS Integers, Sequences, FiniteSets, TLC

VARIABLES args, pc, re, colorize, any_match, stdout, stderr, exit_code,
          entry, nfiles, nlines, scans, last, twin

vars == <<args, pc, re, colorize, any_match, stdout, stderr, exit_code,
          entry, nfiles, nlines, scans, last, twin>>

\* ------------------------------------------------------------------ bounds
\* Entries the directory walk examines in one run.
MaxFiles == 2
\* Lines read from all files of one run together.
MaxLines == 2

\* ------------------------------------------------------- program constants
DEFAULT_DEPTH == 7
EXTENSIONS == {"cpp", "h", "txt", "html", "php", "c", "css", "json", "py", "js"}

\* --------------------------------------------------------------- the inputs
Keywords == {<<"a">>, <<"(">>}
ColorModes == {"Auto", "Always", "Never"}
LineTexts == {<<"A", "a">>, <<"(">>}

Args == [keyword : Keywords, ignore_case : BOOLEAN, invert_match : BOOLEAN,
         count : BOOLEAN, list_files : BOOLEAN, fixed_strings : BOOLEAN,
         word_regexp : BOOLEAN, color : ColorModes]

\* ---------------------------------------------------------- build_matcher
\* regex::escape: a backslash before every meta character.
MetaChars == {"\\", "(", ")", ".", "*", "+", "?", "[", "]", "{", "}", "^", "$", "|"}

RECURSIVE escape(_)
escape(text) ==
    IF text = <<>> THEN <<>>
    ELSE (IF Head(text) \in MetaChars THEN <<"\\", Head(text)>> ELSE <<Head(text)>>)
         \o escape(Tail(text))

\* The pattern text handed to RegexBuilder::new.
PatternText(a) ==
    LET pattern == IF a.fixed_strings THEN escape(a.keyword) ELSE a.keyword
    IN  IF a.word_regexp THEN <<"\\", "b">> \o pattern \o <<"\\", "b">> ELSE pattern

\* RegexBuilder::build on the pattern text: the atoms of the pattern, or an
\* error (an unclosed group, a dangling or unknown escape).
RECURSIVE Compile(_)
Compile(p) ==
    IF p = <<>> THEN [ok |-> TRUE, atoms |-> <<>>]
    ELSE IF Head(p) = "\\"
    THEN IF Len(p) < 2 THEN [ok |-> FALSE, atoms |-> <<>>]
         ELSE LET rest == Compile(SubSeq(p, 3, Len(p)))
                  atom == IF p[2] = "b" THEN [wordb |-> TRUE, ch |-> ""]
                          ELSE [wordb |-> FALSE, ch |-> p[2]]
              IN  IF p[2] \notin (MetaChars \cup {"b"}) \/ ~rest.ok
                  THEN [ok |-> FALSE, atoms |-> <<>>]
                  ELSE [ok |-> TRUE, atoms |-> <<atom>> \o rest.atoms]
    ELSE IF Head(p) \in MetaChars THEN [ok |-> FALSE, atoms |-> <<>>]
    ELSE LET rest == Compile(Tail(p))
         IN  IF ~rest.ok THEN [ok |-> FALSE, atoms |-> <<>>]
             ELSE [ok |-> TRUE,
                   atoms |-> <<[wordb |-> FALSE, ch |-> Head(p)]>> \o rest.atoms]

\* A build_matcher that swallows the compile error: it goes on with a matcher
\* for the literal keyword instead of leaving the process.
build_matcher_NoExit(a) ==
    [ok |-> TRUE, atoms |-> [i \in 1..Len(a.keyword) |-> [wordb |-> FALSE, ch |-> a.keyword[i]]],
     ci |-> a.ignore_case, pattern |-> PatternText(a)]

\* build_matcher: the compiled matcher, or the failure that exits with 2.
build_matcher(a) ==
    LET c == Compile(PatternText(a))
    IN  [ok |-> c.ok, atoms |-> c.atoms, ci |-> a.ignore_case,
         pattern |-> PatternText(a)]

NoRegex == [ok |-> FALSE, atoms |-> <<>>, ci |-> FALSE, pattern |-> <<>>]

\* ------------------------------------------------------- the regex engine
IsWordChar(c) == c \in {"a", "A", "b"}
Lower(c) == IF c = "A" THEN "a" ELSE c
CharEq(ci, c, d) == c = d \/ (ci /\ Lower(c) = Lower(d))

\* \b at position pos (the place before line[pos]).
WordBoundary(line, pos) ==
    (pos > 1 /\ IsWordChar(line[pos - 1])) # (pos <= Len(line) /\ IsWordChar(line[pos]))

\* The end (exclusive) of a match of atoms k.. starting at pos, or 0 if none.
RECURSIVE MatchFrom(_, _, _, _)
MatchFrom(r, line, k, pos) ==
    IF k > Len(r.atoms) THEN pos
    ELSE IF r.atoms[k].wordb
    THEN IF WordBoundary(line, pos) THEN MatchFrom(r, line, k + 1, pos) ELSE 0
    ELSE IF pos <= Len(line) /\ CharEq(r.ci, r.atoms[k].ch, line[pos])
         THEN MatchFrom(r, line, k + 1, pos + 1)
         ELSE 0

\* Regex::is_match
is_match(r, line) == \E i \in 1..(Len(line) + 1) : MatchFrom(r, line, 1, i) # 0

\* Regex::find_iter: the leftmost match starting at or after pos, as
\* <<start, end>> (end exclusive), or <<0, 0>>.
FindFrom(r, line, pos) ==
    LET starts == {i \in pos..(Len(line) + 1) : MatchFrom(r, line, 1, i) # 0}
    IN  IF starts = {} THEN <<0, 0>>
        ELSE LET s == CHOOSE i \in starts : \A j \in starts : i <= j
             IN  <<s, MatchFrom(r, line, 1, s)>>

\* ---------------------------------------------------------- highlight_line
ESC_ON == "ESC[1;31m"
ESC_OFF == "ESC[0m"
\* Colour::Red.bold().paint(text)
Paint(text) == <<ESC_ON>> \o text \o <<ESC_OFF>>

RECURSIVE HighlightFrom(_, _, _)
HighlightFrom(line, r, last_end) ==
    LET mat == FindFrom(r, line, last_end)
    IN  IF mat[1] = 0 \/ mat[2] = mat[1] THEN SubSeq(line, last_end, Len(line))
        ELSE SubSeq(line, last_end, mat[1] - 1)
             \o Paint(SubSeq(line, mat[1], mat[2] - 1))
             \o HighlightFrom(line, r, mat[2])

highlight_line(line, r, col) ==
    IF ~col THEN line ELSE HighlightFrom(line, r, 1)

\* ------------------------------------------------------------------- files
\* A file: whether File::open succeeds, and what reader.lines() yields, each
\* item a line or a read error.  Nothing after a read error is ever read.
LineItems == [ok : {TRUE}, text : LineTexts] \cup {[ok |-> FALSE, text |-> <<>>]}

RECURSIVE SeqsUpTo(_, _)
SeqsUpTo(S, n) ==
    IF n = 0 THEN {<<>>}
    ELSE LET shorter == SeqsUpTo(S, n - 1)
         IN  shorter \cup {Append(s, x) : s \in {t \in shorter : Len(t) = n - 1}, x \in S}

ErrorLast(ls) == \A i \in 1..Len(ls) : ~ls[i].ok => i = Len(ls)

FilesUpTo(n) ==
    {[open_ok |-> FALSE, lines |-> <<>>]}
    \cup {[open_ok |-> TRUE, lines |-> ls] : ls \in {l \in SeqsUpTo(LineItems, n) : ErrorLast(l)}}

\* invert | is_match in place of invert ^ is_match.
Qualifies_Or(invert, m) == invert \/ m

\* The line qualifies: invert ^ is_match.
Qualifies(invert, m) == invert # m

\* ------------------------------------------------------------ count_matches
RECURSIVE CountFrom(_, _, _, _, _)
CountFrom(lines, r, invert, i, count) ==
    IF i > Len(lines) THEN [ok |-> TRUE, val |-> count, err |-> ""]
    ELSE IF ~lines[i].ok THEN [ok |-> FALSE, val |-> 0, err |-> "read"]
    ELSE CountFrom(lines, r, invert, i + 1,
                   IF Qualifies(invert, is_match(r, lines[i].text))
                   THEN count + 1 ELSE count)

count_matches(file, r, invert) ==
    IF ~file.open_ok THEN [ok |-> FALSE, val |-> 0, err |-> "open"]
    ELSE CountFrom(file.lines, r, invert, 1, 0)

\* ------------------------------------------------------------ print_matches
\* The index printed as it is, without the + 1.
LineNumber_ZeroBased(i) == i

\* The number printed for the line at index i of reader.lines().enumerate().
LineNumber(i) == i + 1

\* The records println! writes while the file is read, and the result; i is
\* the index enumerate() gives, from 0.
RECURSIVE PrintFrom(_, _, _, _, _, _, _, _)
PrintFrom(path, lines, r, invert, col, i, found, out) ==
    IF i >= Len(lines) THEN [ok |-> TRUE, found |-> found, err |-> "", out |-> out]
    ELSE IF ~lines[i + 1].ok
    THEN [ok |-> FALSE, found |-> FALSE, err |-> "read", out |-> out]
    ELSE IF Qualifies(invert, is_match(r, lines[i + 1].text))
    THEN PrintFrom(path, lines, r, invert, col, i + 1, TRUE,
                   Append(out, [kind |-> "line", path |-> path, n |-> LineNumber(i),
                                text |-> highlight_line(lines[i + 1].text, r, col)]))
    ELSE PrintFrom(path, lines, r, invert, col, i + 1, found, out)

print_matches(path, file, r, invert, col) ==
    IF ~file.open_ok THEN [ok |-> FALSE, found |-> FALSE, err |-> "open", out |-> <<>>]
    ELSE PrintFrom(path, file.lines, r, invert, col, 0, FALSE, <<>>)

\* -------------------------------------------------------------- the driver
\* A dispatch that forgets the else-if on list_files.
OutputMode_NoList(a) == IF a.count THEN "count" ELSE "full"

\* The branch of main's if / else if / else a file is handled by.
OutputMode(a) ==
    IF a.count THEN "count" ELSE IF a.list_files THEN "list" ELSE "full"

ErrorLine(path, err) == [kind |-> "Error reading", path |-> path, msg |-> err]

\* A count arm without the Ok(0) case: a zero count is printed like any other.
CountArm_PrintsZero(c, path, am) ==
    IF ~c.ok THEN [any_match |-> am, out |-> <<>>, err |-> <<ErrorLine(path, c.err)>>]
    ELSE [any_match |-> TRUE,
          out |-> <<[kind |-> "count", path |-> path, n |-> c.val, text |-> <<>>]>>,
          err |-> <<>>]

\* The three match arms of the loop body: the new any_match and what is
\* appended to standard output and to the error stream.
CountArm(c, path, am) ==
    IF ~c.ok THEN [any_match |-> am, out |-> <<>>, err |-> <<ErrorLine(path, c.err)>>]
    ELSE IF c.val = 0 THEN [any_match |-> am, out |-> <<>>, err |-> <<>>]
    ELSE [any_match |-> TRUE,
          out |-> <<[kind |-> "count", path |-> path, n |-> c.val, text |-> <<>>]>>,
          err |-> <<>>]

\* A full arm that reports the error and still counts the file as a match.
FullArm_ErrorSetsMatch(p, path, am) ==
    IF p.ok THEN [any_match |-> (am \/ p.found), out |-> p.out, err |-> <<>>]
    ELSE [any_match |-> TRUE, out |-> p.out, err |-> <<ErrorLine(path, p.err)>>]

\* A list arm whose guard is c > 1.
ListArm_MoreThanOne(c, path, am) ==
    IF ~c.ok THEN [any_match |-> am, out |-> <<>>, err |-> <<ErrorLine(path, c.err)>>]
    ELSE IF c.val > 1
    THEN [any_match |-> TRUE,
          out |-> <<[kind |-> "list", path |-> path, n |-> 0, text |-> <<>>]>>,
          err |-> <<>>]
    ELSE [any_match |-> am, out |-> <<>>, err |-> <<>>]

ListArm(c, path, am) ==
    IF ~c.ok THEN [any_match |-> am, out |-> <<>>, err |-> <<ErrorLine(path, c.err)>>]
    ELSE IF c.val > 0
    THEN [any_match |-> TRUE,
          out |-> <<[kind |-> "list", path |-> path, n |-> 0, text |-> <<>>]>>,
          err |-> <<>>]
    ELSE [any_match |-> am, out |-> <<>>, err |-> <<>>]

FullArm(p, path, am) ==
    IF p.ok THEN [any_match |-> (am \/ p.found), out |-> p.out, err |-> <<>>]
    ELSE [any_match |-> am, out |-> p.out, err |-> <<ErrorLine(path, p.err)>>]

\* The body of main's for loop on one candidate file.
LoopBody(a, r, col, path, file, am) ==
    IF OutputMode(a) = "count"
    THEN CountArm(count_matches(file, r, a.invert_match), path, am)
    ELSE IF OutputMode(a) = "list"
    THEN ListArm(count_matches(file, r, a.invert_match), path, am)
    ELSE FullArm(print_matches(path, file, r, a.invert_match, col), path, am)

\* --------------------------------------------------------------- the walk
\* What lies under the start path: depth as walkdir counts it (the start
\* path itself is 0), the file type, the extension of the name, and whether
\* the walk reads the entry without error.
FileTypes == {"file", "dir", "symlink"}
Exts == {"py", "PY", "md", ""}
Depths == {1, DEFAULT_DEPTH + 1, DEFAULT_DEPTH + 2}
BaseEntry == [depth |-> 1, ftype |-> "file", ext |-> "py", ok |-> TRUE]
AllEntries == [depth : Depths, ftype : FileTypes, ext : Exts, ok : BOOLEAN]
Deviations(e) == Cardinality({f \in DOMAIN e : e[f] # BaseEntry[f]})
Entries == {e \in AllEntries : Deviations(e) <= 1}

\* max_depth(DEFAULT_DEPTH), without the + 1.
max_depth_NoPlusOne == DEFAULT_DEPTH

\* WalkDir::max_depth: the deepest level the walk lists.
max_depth == DEFAULT_DEPTH + 1

\* The iterator chain of main: listed by the walk, read without error, a
\* regular file, an allowed extension.
Candidate(e) ==
    /\ e.depth <= max_depth
    /\ e.ok
    /\ e.ftype = "file"
    /\ e.ext \in EXTENSIONS

NoEntry == [id |-> 0, depth |-> 0, ftype |-> "", ext |-> "", ok |-> FALSE]
NoLast == [path |-> 0, file |-> [open_ok |-> FALSE, lines |-> <<>>],
           out0 |-> 0, err0 |-> 0, am0 |-> FALSE]
NoTwin == [on |-> FALSE, any_match |-> FALSE, stdout |-> <<>>, stderr |-> <<>>,
           exit_code |-> -1]

\* ------------------------------------------------------------------ states
InitRun ==
    /\ pc = "start"
    /\ re = NoRegex
    /\ colorize = FALSE
    /\ any_match = FALSE
    /\ stdout = <<>>
    /\ stderr = <<>>
    /\ exit_code = -1
    /\ entry = NoEntry
    /\ nfiles = 0
    /\ nlines = 0
    /\ scans = <<>>
    /\ last = NoLast

Init ==
    /\ args \in Args
    /\ InitRun
    /\ twin = NoTwin

InvalidPatternLine == [kind |-> "Invalid pattern", path |-> 0, msg |-> "syntax"]

\* main up to the loop: a pattern that fails to compile ends the process
\* with status 2; otherwise the colour decision is taken (under Auto it is
\* what atty::is(Stream::Stdout) answers) and the walk starts.
StartStep ==
    /\ pc = "start"
    /\ LET r == build_matcher(args)
       IN  IF ~r.ok
           THEN /\ stderr' = Append(stderr, InvalidPatternLine)
                /\ exit_code' = 2
                /\ pc' = "done"
                /\ UNCHANGED <<re, colorize>>
           ELSE /\ re' = r
                /\ colorize' \in (CASE args.color = "Always" -> {TRUE}
                                    [] args.color = "Never" -> {FALSE}
                                    [] OTHER -> BOOLEAN)
                /\ pc' = "walk"
                /\ UNCHANGED <<stderr, exit_code>>
    /\ UNCHANGED <<args, any_match, stdout, entry, nfiles, nlines, scans, last>>

\* The walk comes to its next entry; the iterator chain passes it to the
\* loop body or drops it.
WalkNextStep ==
    /\ pc = "walk"
    /\ nfiles < MaxFiles
    /\ \E e \in Entries :
          /\ entry' = [id |-> nfiles + 1, depth |-> e.depth, ftype |-> e.ftype,
                       ext |-> e.ext, ok |-> e.ok]
          /\ pc' = IF Candidate(e) THEN "scan" ELSE "walk"
    /\ nfiles' = nfiles + 1
    /\ last' = NoLast
    /\ UNCHANGED <<args, re, colorize, any_match, stdout, stderr, exit_code,
                   nlines, scans>>

\* The loop body on the candidate, for what the file holds.
ScanStep(file) ==
    /\ pc = "scan"
    /\ LET b == LoopBody(args, re, colorize, entry.id, file, any_match)
       IN  /\ any_match' = b.any_match
           /\ stdout' = stdout \o b.out
           /\ stderr' = stderr \o b.err
    /\ nlines' = nlines + Len(file.lines)
    /\ last' = [path |-> entry.id, file |-> file, out0 |-> Len(stdout),
                err0 |-> Len(stderr), am0 |-> any_match]
    /\ scans' = Append(scans, [path |-> entry.id, mode |-> OutputMode(args)])
    /\ pc' = "walk"
    /\ UNCHANGED <<args, re, colorize, exit_code, entry, nfiles>>

\* The walk is exhausted: any_match becomes the exit status.
WalkEndStep ==
    /\ pc = "walk"
    /\ exit_code' = IF any_match THEN 0 ELSE 1
    /\ pc' = "done"
    /\ UNCHANGED <<args, re, colorize, any_match, stdout, stderr, entry, nfiles,
                   nlines, scans, last>>

Start == StartStep /\ UNCHANGED twin
WalkNext == WalkNextStep /\ UNCHANGED twin
Scan == (\E file \in FilesUpTo(MaxLines - nlines) : ScanStep(file)) /\ UNCHANGED twin
WalkEnd == WalkEndStep /\ UNCHANGED twin

Next == Start \/ WalkNext \/ Scan \/ WalkEnd

Spec == Init /\ [][Next]_vars

\* ------------------------------------------------- count mode beside list mode
\* The same run twice: the variables of the run hold the -c run, twin holds
\* the -l run on the same walk, the same files and the same matcher.
TwinArgs == [args EXCEPT !.count = FALSE, !.list_files = TRUE]

InitPair ==
    /\ args \in {a \in Args : a.count /\ ~a.list_files}
    /\ InitRun
    /\ twin = [on |-> TRUE, any_match |-> FALSE, stdout |-> <<>>, stderr |-> <<>>,
               exit_code |-> -1]

PairStart ==
    /\ StartStep
    /\ twin' = IF ~build_matcher(TwinArgs).ok
               THEN [twin EXCEPT !.stderr = Append(@, InvalidPatternLine),
                                 !.exit_code = 2]
               ELSE twin

PairWalkNext == WalkNextStep /\ UNCHANGED twin

PairScan ==
    \E file \in FilesUpTo(MaxLines - nlines) :
       /\ ScanStep(file)
       /\ LET b == LoopBody(TwinArgs, re, colorize, entry.id, file, twin.any_match)
          IN  twin' = [twin EXCEPT !.any_match = b.any_match,
                                   !.stdout = @ \o b.out,
                                   !.stderr = @ \o b.err]

PairWalkEnd ==
    /\ WalkEndStep
    /\ twin' = [twin EXCEPT !.exit_code = IF twin.any_match THEN 0 ELSE 1]

NextPair == PairStart \/ PairWalkNext \/ PairScan \/ PairWalkEnd

SpecPair == InitPair /\ [][NextPair]_vars

\* ================================================================ claims
\* What the claims speak of, read off the state.
LastScanned == last.path # 0
\* What the scan of the last file wrote to standard output and to the error stream.
LastOut == SubSeq(stdout, last.out0 + 1, Len(stdout))
LastErr == SubSeq(stderr, last.err0 + 1, Len(stderr))
\* The open fails or some line fails to read.
FileFails(file) == ~file.open_ok \/ \E i \in 1..Len(file.lines) : ~file.lines[i].ok
\* The positions of the qualifying lines of a file, under the run's matcher.
QualifyingLines(file) ==
    {i \in 1..Len(file.lines) :
        file.lines[i].ok /\ (args.invert_match # is_match(re, file.lines[i].text))}
RecordsFor(out, path) == SelectSeq(out, LAMBDA rec : rec.path = path)
RecordPaths(out) == {out[k].path : k \in 1..Len(out)}
IsEscape(c) == c \in {ESC_ON, ESC_OFF}
Strip(text) == SelectSeq(text, LAMBDA c : ~IsEscape(c))
\* The directories between the start path and the entry.
DirsBelow(e) == e.depth - 1
Scanned(e) == pc = "scan" \/ \E i \in 1..Len(scans) : scans[i].path = e.id
\* The raw keyword opens a group it never closes.
UnclosedGroup(a) == ~a.fixed_strings /\ \E i \in 1..Len(a.keyword) : a.keyword[i] = "("

\* C1: when the pattern compiles, the process exits with 0 if and only if some
\* result record was written to standard output, and with 1 otherwise.
C1_ExitZeroIffOutput ==
    (pc = "done" /\ re.ok) =>
        /\ exit_code \in {0, 1}
        /\ exit_code = 0 <=> stdout # <<>>

\* C2: in every output mode, a file whose open or whose read of some line
\* fails has no result record on standard output.
C2_NoOutputForFailedFile ==
    (LastScanned /\ FileFails(last.file)) => RecordsFor(stdout, last.path) = <<>>

\* C3: a pattern that fails to compile ends the process with status 2 before
\* the walk: no entry is examined, no file is scanned, nothing is on standard
\* output; and a keyword with an unclosed group does fail to compile.
C3_CompileFailureExitsTwo ==
    /\ (pc # "start" /\ ~re.ok) =>
          /\ pc = "done"
          /\ exit_code = 2
          /\ nfiles = 0 /\ nlines = 0 /\ scans = <<>>
          /\ stdout = <<>>
    /\ (pc # "start" /\ UnclosedGroup(args)) => ~re.ok

C3_Witness ==
    pc = "done" /\ exit_code = 2 /\ UnclosedGroup(args) /\ stderr = <<InvalidPatternLine>>

\* C4: for a file read without error, count_matches with invert plus
\* count_matches without invert is the number of lines, and each line is
\* counted under exactly one of the two.
C4_InvertCountsSumToLines ==
    (LastScanned /\ ~FileFails(last.file)) =>
        LET t == count_matches(last.file, re, TRUE)
            f == count_matches(last.file, re, FALSE)
            one(i) == [open_ok |-> TRUE, lines |-> <<last.file.lines[i]>>]
        IN  /\ t.ok /\ f.ok
            /\ t.val + f.val = Len(last.file.lines)
            /\ \A i \in 1..Len(last.file.lines) :
                  count_matches(one(i), re, TRUE).val
                  + count_matches(one(i), re, FALSE).val = 1

C4_Witness ==
    /\ LastScanned /\ ~FileFails(last.file) /\ args.count
    /\ Len(last.file.lines) = 2
    /\ count_matches(last.file, re, TRUE).val = 1
    /\ count_matches(last.file, re, FALSE).val = 1
    /\ Len(LastOut) = 1 /\ LastOut[1].n = 1

\* C5: in count mode and in list mode a file with no qualifying line writes
\* nothing and leaves any_match as it was; a file with some writes exactly one
\* record (path and count, or path alone) and sets any_match.
C5_ZeroCountIsSilent ==
    (LastScanned /\ (args.count \/ args.list_files) /\ ~FileFails(last.file)) =>
        LET q == Cardinality(QualifyingLines(last.file))
        IN  /\ RecordsFor(stdout, last.path) = LastOut
            /\ IF q = 0
               THEN LastOut = <<>> /\ any_match = last.am0
               ELSE /\ any_match
                    /\ Len(LastOut) = 1
                    /\ LastOut[1].path = last.path
                    /\ IF args.count
                       THEN LastOut[1].kind = "count" /\ LastOut[1].n = q
                       ELSE LastOut[1].kind = "list"

C5_Witness ==
    /\ LastScanned /\ args.count /\ ~FileFails(last.file)
    /\ Len(last.file.lines) = 1 /\ QualifyingLines(last.file) = {}
    /\ Len(scans) = 2 /\ Len(stdout) = 1 /\ stdout[1].n = 1
    /\ any_match /\ last.am0

\* C6 as claimed: in full mode a file read without error writes one record
\* per qualifying line, in file order, with the line's 1-based position and
\* the line's original text.
C6_RecordsCarryOriginalText ==
    (LastScanned /\ ~args.count /\ ~args.list_files /\ ~FileFails(last.file)) =>
        LET Q == QualifyingLines(last.file)
        IN  /\ Len(LastOut) = Cardinality(Q)
            /\ \A k \in 1..Len(LastOut) :
                  /\ LastOut[k].kind = "line"
                  /\ LastOut[k].path = last.path
                  /\ LastOut[k].n \in Q
                  /\ LastOut[k].text = last.file.lines[LastOut[k].n].text
            /\ \A k \in 1..(Len(LastOut) - 1) : LastOut[k].n < LastOut[k + 1].n

\* C6 as amended: the same, the record carrying the rendered line: the
\* original text when colouring is off, and with colouring on the original
\* text with escape sequences added, which removed give the original text.
C6_RecordsCarryRenderedText ==
    (LastScanned /\ ~args.count /\ ~args.list_files /\ ~FileFails(last.file)) =>
        LET Q == QualifyingLines(last.file)
        IN  /\ Len(LastOut) = Cardinality(Q)
            /\ \A k \in 1..Len(LastOut) :
                  /\ LastOut[k].kind = "line"
                  /\ LastOut[k].path = last.path
                  /\ LastOut[k].n \in Q
                  /\ Strip(LastOut[k].text) = last.file.lines[LastOut[k].n].text
                  /\ ~colorize => LastOut[k].text = last.file.lines[LastOut[k].n].text
            /\ \A k \in 1..(Len(LastOut) - 1) : LastOut[k].n < LastOut[k + 1].n

C6_Witness ==
    /\ LastScanned /\ ~args.count /\ ~args.list_files /\ ~FileFails(last.file)
    /\ colorize
    /\ Len(last.file.lines) = 2 /\ QualifyingLines(last.file) = {2}
    /\ Len(LastOut) = 1 /\ LastOut[1].n = 2
    /\ LastOut[1].text # last.file.lines[2].text

\* C7 as claimed: a scanned file has at most 7 directories between the start
\* path and itself, and every regular file with an allowed extension that has
\* at most 7 is scanned.
C7_DepthBoundAndEveryFile ==
    entry.id # 0 =>
        /\ Scanned(entry) => DirsBelow(entry) <= DEFAULT_DEPTH
        /\ (entry.ftype = "file" /\ entry.ext \in EXTENSIONS
                /\ DirsBelow(entry) <= DEFAULT_DEPTH) => Scanned(entry)

\* C7 as amended: a scanned file has at most 7 directories between the start
\* path and itself, and every regular file with an allowed extension that has
\* at most 7 and that the walk reads without error is scanned.
C7_DepthBoundAndEveryReadFile ==
    entry.id # 0 =>
        /\ Scanned(entry) => DirsBelow(entry) <= DEFAULT_DEPTH
        /\ (entry.ftype = "file" /\ entry.ext \in EXTENSIONS /\ entry.ok
                /\ DirsBelow(entry) <= DEFAULT_DEPTH) => Scanned(entry)

C7_Witness ==
    /\ entry.id # 0 /\ DirsBelow(entry) = DEFAULT_DEPTH
    /\ \E i \in 1..Len(scans) : scans[i].path = entry.id
    /\ LastScanned /\ last.path = entry.id /\ LastOut # <<>>

\* C8: whatever the count and list-files flags, every file of the run is
\* handled by one and the same of the three output modes, and that mode is the
\* full listing exactly when neither flag is set.
C8_OneOutputMode ==
    /\ \A i \in 1..Len(scans) :
          /\ scans[i].mode \in {"count", "list", "full"}
          /\ scans[i].mode = scans[1].mode
          /\ scans[i].mode = "full" <=> (~args.count /\ ~args.list_files)
    /\ \A k \in 1..Len(stdout) :
          /\ stdout[k].kind = stdout[1].kind
          /\ stdout[k].kind = "line" <=> (~args.count /\ ~args.list_files)

C8_Witness ==
    /\ args.count /\ args.list_files
    /\ Len(scans) = 2 /\ Len(stdout) = 2

\* C9: a file that fails to open or to read gets exactly one Error reading
\* line, leaves any_match as it was, and does not end the loop; no path is
\* scanned twice or reported twice, every candidate the walk yields is
\* scanned, and once the walk is exhausted the exit status is 0 or 1.
C9_FileErrorIsNotFatal ==
    /\ (LastScanned /\ FileFails(last.file)) =>
          /\ Len(LastErr) = 1
          /\ LastErr[1].kind = "Error reading" /\ LastErr[1].path = last.path
          /\ any_match = last.am0
          /\ pc = "walk" \/ (pc = "done" /\ exit_code \in {0, 1})
    /\ (LastScanned /\ ~FileFails(last.file)) => LastErr = <<>>
    /\ \A i, j \in 1..Len(scans) : i < j => scans[i].path # scans[j].path
    /\ \A i, j \in 1..Len(stderr) : i < j => stderr[i].path # stderr[j].path
    /\ (entry.id # 0 /\ Candidate(entry) /\ pc # "scan") =>
          \E i \in 1..Len(scans) : scans[i].path = entry.id
    /\ (pc = "done" /\ re.ok) => exit_code \in {0, 1}
    /\ pc # "done" => exit_code = -1

C9_Witness ==
    /\ pc = "done" /\ exit_code = 0
    /\ Len(scans) = 2
    /\ Len(stderr) = 1 /\ stderr[1].path = scans[1].path
    /\ RecordPaths(stdout) = {scans[2].path}

\* C10: count mode and list mode, run on the same walk, files, matcher and
\* invert flag, write a record for the same files, an error line for the same
\* files, and end with the same exit status.
C10_CountAndListAgree ==
    twin.on =>
        /\ RecordPaths(stdout) = RecordPaths(twin.stdout)
        /\ Len(stdout) = Len(twin.stdout)
        /\ stderr = twin.stderr
        /\ exit_code = twin.exit_code

C10_Witness ==
    /\ twin.on /\ pc = "done" /\ exit_code = 0
    /\ Len(scans) = 2 /\ Len(stdout) = 1 /\ Len(stderr) = 1
    /\ stdout[1].kind = "count" /\ twin.stdout[1].kind = "list"

====
